---- MODULE Spec2Model ----
(***************************************************************************)
(* Model of src/service/signon.js: the Signon service of the ibmi client.  *)
(*                                                                         *)
(* A Signon instance drives a two-phase handshake over its socket:         *)
(* connect, seed exchange (exchangeSeeds / handleSeedExchangeResponse),    *)
(* then credential submission (info / handleInfoResponse).  signon() is an *)
(* async function; its continuations after each await are modelled as      *)
(* entries of the microtask queue, which the JavaScript event loop drains  *)
(* before it delivers the next I/O event.                                  *)
(***************************************************************************)
EXTENDS Integers, Sequences, FiniteSets, TLC

VARIABLES
  thisSystem,   \* Signon instance -> the system object it was constructed with
  system,       \* system object -> its negotiation fields
  seed,         \* Signon instance -> this.seed
  listeners,    \* Signon instance -> once('data') listeners of this.socket, in order
  outstanding,  \* Signon instance -> requests written to the socket, reply not yet delivered
  calls,        \* the signon() invocations made so far, in invocation order
  mq,           \* microtask queue: the calls whose awaited promise has settled
  event,        \* the inbound data event delivered by the last step, if any
  packet        \* the data-queue packet object constructed by the last step, if any

vars == <<thisSystem, system, seed, listeners, outstanding, calls, mq, event, packet>>

(***************************************************************************)
(* Bounds and input domains                                                *)
(***************************************************************************)
MaxCalls == 2                 \* signon() invocations in one behaviour

Inst == {1, 2}                \* Signon instances
Sys == {"S1", "S2"}           \* system objects

Undefined == -1               \* a field that was never assigned

hostName(s) == IF s = "S1" THEN "hostA" ELSE "hostB"
userId(s) == IF s = "S1" THEN "bob" ELSE "eve"
password(s) == IF s = "S1" THEN "pw1" ELSE "pw2"

\* the client seed a new SignonSeedExchangeRequest carries: fresh for every request
NewClientSeed(c) == 100 + c

(***************************************************************************)
(* Signon errors (class SignonErrors)                                      *)
(***************************************************************************)
PASSWORD_LENGTH_NOT_VALID == [id |-> 65544, msg |-> "Password length not valid"]
USERID_UNKNOWN == [id |-> 131073, msg |-> "Unknown user ID"]
USERID_DISABLED == [id |-> 131074, msg |-> "User ID is disabled"]
PASSWORD_INCORRECT == [id |-> 196619, msg |-> "Incorrect password"]
PASSWORD_INCORRECT_DISABLE ==
  [id |-> 196620,
   msg |-> "Incorrect password, user ID will be disabled on the next incorrect password"]

\* variant: the case of PASSWORD_INCORRECT_DISABLE returns the message of PASSWORD_INCORRECT
SignonErrors_get_copied(id) ==
  CASE id = PASSWORD_LENGTH_NOT_VALID.id -> PASSWORD_LENGTH_NOT_VALID.msg
    [] id = USERID_UNKNOWN.id -> USERID_UNKNOWN.msg
    [] id = USERID_DISABLED.id -> USERID_DISABLED.msg
    [] id = PASSWORD_INCORRECT.id -> PASSWORD_INCORRECT.msg
    [] id = PASSWORD_INCORRECT_DISABLE.id -> PASSWORD_INCORRECT.msg
    [] OTHER -> "Unknown error"

SignonErrors_get(id) ==
  CASE id = PASSWORD_LENGTH_NOT_VALID.id -> PASSWORD_LENGTH_NOT_VALID.msg
    [] id = USERID_UNKNOWN.id -> USERID_UNKNOWN.msg
    [] id = USERID_DISABLED.id -> USERID_DISABLED.msg
    [] id = PASSWORD_INCORRECT.id -> PASSWORD_INCORRECT.msg
    [] id = PASSWORD_INCORRECT_DISABLE.id -> PASSWORD_INCORRECT_DISABLE.msg
    [] OTHER -> "Unknown error"

(***************************************************************************)
(* Inbound data.  A buffer is modelled by its length and by the fields the *)
(* response packets read from it: SignonSeedExchangeResponse and           *)
(* SignonInfoResponse both wrap the same bytes, so one buffer carries the  *)
(* fields of both views.                                                   *)
(***************************************************************************)
\* status codes: 0, the five codes of SignonErrors, and two codes it does not know
AllRCs == {0, 1, 65544, 131073, 131074, 196619, 196620, 196621}
\* status codes of the handshake runs: success, one known code, one unknown code
RCs == {0, 1, 196619}
Body1 ==
  [serverLevel |-> 1, serverVersion |-> 11, passwordLevel |-> 0, serverSeed |-> 201,
   serverCCSID |-> 37, currentSignonDate |-> 301, lastSignonDate |-> 302,
   passwordExpirationDate |-> 303, expirationWarning |-> 7, userId |-> "ALICE"]
Body2 ==
  [serverLevel |-> 5, serverVersion |-> 12, passwordLevel |-> 2, serverSeed |-> 202,
   serverCCSID |-> 500, currentSignonDate |-> 401, lastSignonDate |-> 402,
   passwordExpirationDate |-> 403, expirationWarning |-> 0, userId |-> "bob"]
\* buffers below the 24-byte minimum, with bytes that would decode as status 0 or not
ShortData ==
  { [length |-> 10, rc |-> 0, body |-> Body1],
    [length |-> 23, rc |-> 0, body |-> Body2],
    [length |-> 23, rc |-> 196619, body |-> Body1] }
\* buffers of the minimum length: status 0 with either body, every other status
FullData(rcs) ==
  [length : {24}, rc : {0}, body : {Body1, Body2}]
    \cup [length : {24}, rc : rcs \ {0}, body : {Body1}]
Data == ShortData \cup FullData(RCs)
AllData == ShortData \cup FullData(AllRCs)

SignonSeedExchangeResponse(data) ==
  [rc |-> data.rc,
   serverLevel |-> data.body.serverLevel,
   serverVersion |-> data.body.serverVersion,
   passwordLevel |-> data.body.passwordLevel,
   serverSeed |-> data.body.serverSeed]

SignonInfoResponse(data) ==
  [rc |-> data.rc,
   serverCCSID |-> data.body.serverCCSID,
   currentSignonDate |-> data.body.currentSignonDate,
   lastSignonDate |-> data.body.lastSignonDate,
   passwordExpirationDate |-> data.body.passwordExpirationDate,
   expirationWarning |-> data.body.expirationWarning,
   userId |-> data.body.userId]

(***************************************************************************)
(* Errors.  An Error is modelled by its kind, the phase that raised it,    *)
(* the host its message names, and the status code or mapped message its   *)
(* message ends with.                                                      *)
(***************************************************************************)
ConnectErrors == {"ECONNREFUSED"}
SendErrors == {"EPIPE"}

FramingError(phase, host) ==
  [kind |-> "framing", phase |-> phase, host |-> host, code |-> 0, msg |-> ""]
SeedExchangeError(host, rc) ==
  [kind |-> "protocol", phase |-> "seed", host |-> host, code |-> rc, msg |-> ""]
InfoError(host, msg) ==
  [kind |-> "protocol", phase |-> "info", host |-> host, code |-> 0, msg |-> msg]
TransportError(phase, e) ==
  [kind |-> "transport", phase |-> phase, host |-> "", code |-> 0, msg |-> e]

(***************************************************************************)
(* Promises.  resolve / reject settle a pending promise and are ignored on *)
(* a settled one.  A settlement is [fn, serverSeed, res, err].             *)
(***************************************************************************)
Resolve(serverSeed, res) ==
  [fn |-> "resolve", serverSeed |-> serverSeed, res |-> res, err |-> <<>>]
Reject(err) ==
  [fn |-> "reject", serverSeed |-> Undefined, res |-> <<>>, err |-> <<err>>]

PhaseOf(kind) == IF kind = "seed" THEN "exchangeSeeds" ELSE "info"

Pending(call, kind) == call.pc = PhaseOf(kind) /\ call.promise = "pending"

PromiseSettle(call, kind, s) ==
  IF Pending(call, kind)
  THEN [call EXCEPT !.promise = IF s.fn = "resolve" THEN "fulfilled" ELSE "rejected",
                    !.serverSeed = s.serverSeed,
                    !.res = s.res,
                    !.err = s.err]
  ELSE call

(***************************************************************************)
(* The two reply handlers                                                  *)
(***************************************************************************)
\* variant: the length check compares against the 20-byte header instead of 24
handleSeedExchangeResponse_header(s, data) ==
  IF data.length < 20
  THEN Reject(FramingError("seed", hostName(s)))
  ELSE LET resp == SignonSeedExchangeResponse(data)
       IN IF resp.rc # 0
          THEN Reject(SeedExchangeError(hostName(s), resp.rc))
          ELSE Resolve(resp.serverSeed, <<>>)

\* what handleSeedExchangeResponse passes to resolve or reject
handleSeedExchangeResponse(s, data) ==
  IF data.length < 24
  THEN Reject(FramingError("seed", hostName(s)))
  ELSE LET resp == SignonSeedExchangeResponse(data)
       IN IF resp.rc # 0
          THEN Reject(SeedExchangeError(hostName(s), resp.rc))
          ELSE Resolve(resp.serverSeed, <<>>)

\* variant: serverLevel and serverVersion are assigned from each other's field
seedExchangeSystem_swapped(sys, data) ==
  IF data.length < 24
  THEN sys
  ELSE LET resp == SignonSeedExchangeResponse(data)
       IN IF resp.rc # 0
          THEN sys
          ELSE [sys EXCEPT !.serverLevel = resp.serverVersion,
                           !.serverVersion = resp.serverLevel,
                           !.passwordLevel = resp.passwordLevel,
                           !.passwordAttributesSet = TRUE]

\* variant: the fields are assigned before the status of the reply is tested
seedExchangeSystem_beforeStatus(sys, data) ==
  IF data.length < 24
  THEN sys
  ELSE LET resp == SignonSeedExchangeResponse(data)
       IN [sys EXCEPT !.serverLevel = resp.serverLevel,
                      !.serverVersion = resp.serverVersion,
                      !.passwordLevel = resp.passwordLevel,
                      !.passwordAttributesSet = (resp.rc = 0 \/ @)]

\* variant: the assignment of passwordAttributesSet is missing
seedExchangeSystem_noFlag(sys, data) ==
  IF data.length < 24
  THEN sys
  ELSE LET resp == SignonSeedExchangeResponse(data)
       IN IF resp.rc # 0
          THEN sys
          ELSE [sys EXCEPT !.serverLevel = resp.serverLevel,
                           !.serverVersion = resp.serverVersion,
                           !.passwordLevel = resp.passwordLevel]

\* what handleSeedExchangeResponse leaves in this.system
seedExchangeSystem(sys, data) ==
  IF data.length < 24
  THEN sys
  ELSE LET resp == SignonSeedExchangeResponse(data)
       IN IF resp.rc # 0
          THEN sys
          ELSE [sys EXCEPT !.serverLevel = resp.serverLevel,
                           !.serverVersion = resp.serverVersion,
                           !.passwordLevel = resp.passwordLevel,
                           !.passwordAttributesSet = TRUE]

\* variant: userId of the result is the user id of the request, this.system.userId
handleInfoResponse_requestUserId(s, data) ==
  IF data.length < 24
  THEN Reject(FramingError("info", hostName(s)))
  ELSE LET resp == SignonInfoResponse(data)
       IN IF resp.rc # 0
          THEN Reject(InfoError(hostName(s), SignonErrors_get(resp.rc)))
          ELSE Resolve(Undefined,
                       << [serverCCSID |-> resp.serverCCSID,
                           currentSignonDate |-> resp.currentSignonDate,
                           lastSignonDate |-> resp.lastSignonDate,
                           passwordExpirationDate |-> resp.passwordExpirationDate,
                           expirationWarning |-> resp.expirationWarning,
                           userId |-> userId(s)] >>)

handleInfoResponse(s, data) ==
  IF data.length < 24
  THEN Reject(FramingError("info", hostName(s)))
  ELSE LET resp == SignonInfoResponse(data)
       IN IF resp.rc # 0
          THEN Reject(InfoError(hostName(s), SignonErrors_get(resp.rc)))
          ELSE Resolve(Undefined,
                       << [serverCCSID |-> resp.serverCCSID,
                           currentSignonDate |-> resp.currentSignonDate,
                           lastSignonDate |-> resp.lastSignonDate,
                           passwordExpirationDate |-> resp.passwordExpirationDate,
                           expirationWarning |-> resp.expirationWarning,
                           userId |-> resp.userId] >>)

(***************************************************************************)
(* Password encryptor: a pure function of the level and its four inputs    *)
(***************************************************************************)
PasswordEncryptor_encrypt(level, uid, pw, clientSeed, serverSeed) ==
  [level |-> level, userId |-> uid, password |-> pw,
   clientSeed |-> clientSeed, serverSeed |-> serverSeed]

SignonInfoRequest(uid, encryptedPassword, serverLevel) ==
  [userId |-> uid, encryptedPassword |-> encryptedPassword, serverLevel |-> serverLevel]

(***************************************************************************)
(* Initial state: the instances are constructed, nothing is connected      *)
(***************************************************************************)
Constructions ==
  { [i \in Inst |-> "S1"], [i \in Inst |-> IF i = 1 THEN "S1" ELSE "S2"] }

\* a system object before any handshake; no statement of signon.js assigns serverSeed
NewSystem ==
  [serverLevel |-> Undefined, serverVersion |-> Undefined,
   passwordLevel |-> Undefined, serverSeed |-> Undefined,
   passwordAttributesSet |-> FALSE]

NewCall(i) ==
  [inst |-> i, pc |-> "connect", promise |-> "pending",
   serverSeed |-> Undefined, res |-> <<>>, err |-> <<>>, outcome |-> "pending",
   nConnect |-> 1, nSeedReq |-> 0, nInfoReq |-> 0, nEncrypt |-> 0,
   reqSeed |-> Undefined, seedReply |-> <<>>, encrypt |-> <<>>, infoReq |-> <<>>,
   thrown |-> <<>>]

Init ==
  /\ thisSystem \in Constructions
  /\ system = [s \in Sys |-> NewSystem]
  /\ seed = [i \in Inst |-> Undefined]
  /\ listeners = [i \in Inst |-> <<>>]
  /\ outstanding = [i \in Inst |-> 0]
  /\ calls = <<>>
  /\ mq = <<>>
  /\ event = <<>>
  /\ packet = <<>>

(***************************************************************************)
(* signon(): the caller invokes it; it runs up to the first await, that    *)
(* is, it starts connect().                                                *)
(***************************************************************************)
signon(i, maxCalls) ==
  /\ mq = <<>>
  /\ Len(calls) < maxCalls
  /\ calls' = Append(calls, NewCall(i))
  /\ event' = <<>>
  /\ UNCHANGED <<thisSystem, system, seed, listeners, outstanding, mq, packet>>

\* connect() completes: its promise is fulfilled
connectResolved(c) ==
  /\ mq = <<>>
  /\ c \in DOMAIN calls
  /\ calls[c].pc = "connect" /\ calls[c].promise = "pending"
  /\ calls' = [calls EXCEPT ![c].promise = "fulfilled"]
  /\ mq' = Append(mq, c)
  /\ event' = <<>>
  /\ UNCHANGED <<thisSystem, system, seed, listeners, outstanding, packet>>

\* connect() fails: its promise is rejected with the transport error
connectRejected(c, e) ==
  /\ mq = <<>>
  /\ c \in DOMAIN calls
  /\ calls[c].pc = "connect" /\ calls[c].promise = "pending"
  /\ calls' = [calls EXCEPT ![c].promise = "rejected",
                            ![c].err = <<TransportError("connect", e)>>,
                            ![c].thrown = <<TransportError("connect", e)>>]
  /\ mq' = Append(mq, c)
  /\ event' = <<>>
  /\ UNCHANGED <<thisSystem, system, seed, listeners, outstanding, packet>>

(***************************************************************************)
(* exchangeSeeds(): runs when signon() resumes after connect().  The       *)
(* request draws a client seed, the seed is stored in this.seed, the       *)
(* one-shot listener is registered, and the packet is sent; a throwing     *)
(* sendPacket rejects the promise (the listener stays registered).         *)
(***************************************************************************)
\* variant: signon() does not await exchangeSeeds() and goes on to info() at once
exchangeSeeds_notAwaited(c, sent) ==
  /\ mq # <<>> /\ Head(mq) = c
  /\ calls[c].pc = "connect" /\ calls[c].promise = "fulfilled"
  /\ LET i == calls[c].inst
         clientSeed == NewClientSeed(c)
     IN /\ seed' = [seed EXCEPT ![i] = clientSeed]
        /\ listeners' = [listeners EXCEPT ![i] = Append(@, [call |-> c, kind |-> "seed"])]
        /\ IF sent = "ok"
           THEN /\ outstanding' = [outstanding EXCEPT ![i] = @ + 1]
                /\ calls' = [calls EXCEPT ![c].pc = "exchangeSeeds",
                                          ![c].promise = "fulfilled",
                                          ![c].reqSeed = clientSeed,
                                          ![c].nSeedReq = @ + 1]
                /\ mq' = Append(Tail(mq), c)
           ELSE /\ outstanding' = outstanding
                /\ calls' = [calls EXCEPT ![c].pc = "exchangeSeeds",
                                          ![c].promise = "rejected",
                                          ![c].reqSeed = clientSeed,
                                          ![c].err = <<TransportError("seed", sent)>>,
                                          ![c].thrown = <<TransportError("seed", sent)>>]
                /\ mq' = Append(Tail(mq), c)
  /\ event' = <<>>
  /\ UNCHANGED <<thisSystem, system, packet>>

exchangeSeeds(c, sent) ==
  /\ mq # <<>> /\ Head(mq) = c
  /\ calls[c].pc = "connect" /\ calls[c].promise = "fulfilled"
  /\ LET i == calls[c].inst
         clientSeed == NewClientSeed(c)
     IN /\ seed' = [seed EXCEPT ![i] = clientSeed]
        /\ listeners' = [listeners EXCEPT ![i] = Append(@, [call |-> c, kind |-> "seed"])]
        /\ IF sent = "ok"
           THEN /\ outstanding' = [outstanding EXCEPT ![i] = @ + 1]
                /\ calls' = [calls EXCEPT ![c].pc = "exchangeSeeds",
                                          ![c].promise = "pending",
                                          ![c].reqSeed = clientSeed,
                                          ![c].nSeedReq = @ + 1]
                /\ mq' = Tail(mq)
           ELSE /\ outstanding' = outstanding
                /\ calls' = [calls EXCEPT ![c].pc = "exchangeSeeds",
                                          ![c].promise = "rejected",
                                          ![c].reqSeed = clientSeed,
                                          ![c].err = <<TransportError("seed", sent)>>,
                                          ![c].thrown = <<TransportError("seed", sent)>>]
                /\ mq' = Append(Tail(mq), c)
  /\ event' = <<>>
  /\ UNCHANGED <<thisSystem, system, packet>>

(***************************************************************************)
(* info(serverSeed): runs when signon() resumes after exchangeSeeds().     *)
(***************************************************************************)
\* variant: the client seed is kept on the system object, which instances share, so
\* info() reads the seed of the latest request made for that system
info_encryptedPassword_sharedSeed(i, serverSeed) ==
  LET s == thisSystem[i]
      seeds == {seed[j] : j \in {k \in Inst : thisSystem[k] = s}}
      latest == CHOOSE x \in seeds : \A y \in seeds : y <= x
  IN PasswordEncryptor_encrypt(system[s].passwordLevel, userId(s), password(s),
                               latest, serverSeed)

\* the credential blob info() computes on instance i from the resolved server seed
info_encryptedPassword(i, serverSeed) ==
  LET s == thisSystem[i]
  IN PasswordEncryptor_encrypt(system[s].passwordLevel, userId(s), password(s),
                               seed[i], serverSeed)

\* the info request info() builds on instance i
info_req(i, encryptedPassword) ==
  LET s == thisSystem[i]
  IN SignonInfoRequest(userId(s), encryptedPassword, system[s].serverLevel)

\* variant: info() registers its reader but never sends the info request
info_notSent(c, sent) ==
  /\ mq # <<>> /\ Head(mq) = c
  /\ calls[c].pc = "exchangeSeeds" /\ calls[c].promise = "fulfilled"
  /\ LET i == calls[c].inst
         encryptedPassword == info_encryptedPassword(i, calls[c].serverSeed)
         req == info_req(i, encryptedPassword)
     IN /\ listeners' = [listeners EXCEPT ![i] = Append(@, [call |-> c, kind |-> "info"])]
        /\ calls' = [calls EXCEPT ![c].pc = "info",
                                  ![c].promise = "pending",
                                  ![c].nEncrypt = @ + 1,
                                  ![c].encrypt = <<encryptedPassword>>,
                                  ![c].infoReq = <<req>>]
        /\ mq' = Tail(mq)
  /\ event' = <<>>
  /\ UNCHANGED <<thisSystem, system, seed, outstanding, packet>>

\* variant: info() also arms a timer that rejects its promise when no reply has come
info_withTimeout(c, sent) ==
  \/ /\ mq # <<>> /\ Head(mq) = c
     /\ calls[c].pc = "exchangeSeeds" /\ calls[c].promise = "fulfilled"
     /\ LET i == calls[c].inst
            encryptedPassword == info_encryptedPassword(i, calls[c].serverSeed)
            req == info_req(i, encryptedPassword)
        IN /\ listeners' = [listeners EXCEPT ![i] = Append(@, [call |-> c, kind |-> "info"])]
           /\ IF sent = "ok"
              THEN /\ outstanding' = [outstanding EXCEPT ![i] = @ + 1]
                   /\ calls' = [calls EXCEPT ![c].pc = "info",
                                             ![c].promise = "pending",
                                             ![c].nEncrypt = @ + 1,
                                             ![c].encrypt = <<encryptedPassword>>,
                                             ![c].infoReq = <<req>>,
                                             ![c].nInfoReq = @ + 1]
                   /\ mq' = Tail(mq)
              ELSE /\ outstanding' = outstanding
                   /\ calls' = [calls EXCEPT ![c].pc = "info",
                                             ![c].promise = "rejected",
                                             ![c].nEncrypt = @ + 1,
                                             ![c].encrypt = <<encryptedPassword>>,
                                             ![c].err = <<TransportError("info", sent)>>,
                                             ![c].thrown = <<TransportError("info", sent)>>]
                   /\ mq' = Append(Tail(mq), c)
     /\ event' = <<>>
     /\ UNCHANGED <<thisSystem, system, seed, packet>>
  \/ /\ mq = <<>>
     /\ calls[c].pc = "info" /\ calls[c].promise = "pending"
     /\ calls' = [calls EXCEPT ![c].promise = "rejected",
                               ![c].err = <<FramingError("info", hostName(thisSystem[calls[c].inst]))>>]
     /\ mq' = Append(mq, c)
     /\ event' = <<>>
     /\ UNCHANGED <<thisSystem, system, seed, listeners, outstanding, packet>>

info(c, sent) ==
  /\ mq # <<>> /\ Head(mq) = c
  /\ calls[c].pc = "exchangeSeeds" /\ calls[c].promise = "fulfilled"
  /\ LET i == calls[c].inst
         encryptedPassword == info_encryptedPassword(i, calls[c].serverSeed)
         req == info_req(i, encryptedPassword)
     IN /\ listeners' = [listeners EXCEPT ![i] = Append(@, [call |-> c, kind |-> "info"])]
        /\ IF sent = "ok"
           THEN /\ outstanding' = [outstanding EXCEPT ![i] = @ + 1]
                /\ calls' = [calls EXCEPT ![c].pc = "info",
                                          ![c].promise = "pending",
                                          ![c].nEncrypt = @ + 1,
                                          ![c].encrypt = <<encryptedPassword>>,
                                          ![c].infoReq = <<req>>,
                                          ![c].nInfoReq = @ + 1]
                /\ mq' = Tail(mq)
           ELSE /\ outstanding' = outstanding
                /\ calls' = [calls EXCEPT ![c].pc = "info",
                                          ![c].promise = "rejected",
                                          ![c].nEncrypt = @ + 1,
                                          ![c].encrypt = <<encryptedPassword>>,
                                          ![c].err = <<TransportError("info", sent)>>,
                                          ![c].thrown = <<TransportError("info", sent)>>]
                /\ mq' = Append(Tail(mq), c)
  /\ event' = <<>>
  /\ UNCHANGED <<thisSystem, system, seed, packet>>

\* signon() resumes after info() and returns res
signonReturn(c) ==
  /\ mq # <<>> /\ Head(mq) = c
  /\ calls[c].pc = "info" /\ calls[c].promise = "fulfilled"
  /\ calls' = [calls EXCEPT ![c].pc = "done", ![c].outcome = "resolved"]
  /\ mq' = Tail(mq)
  /\ event' = <<>>
  /\ UNCHANGED <<thisSystem, system, seed, listeners, outstanding, packet>>

\* variant: a failure of exchangeSeeds() is logged and signon() goes on to info()
signonCatch_seedSwallowed(c) ==
  /\ mq # <<>> /\ Head(mq) = c
  /\ calls[c].pc # "done" /\ calls[c].promise = "rejected"
  /\ IF calls[c].pc = "exchangeSeeds"
     THEN /\ calls' = [calls EXCEPT ![c].promise = "fulfilled"]
          /\ mq' = mq
     ELSE /\ calls' = [calls EXCEPT ![c].pc = "done", ![c].outcome = "rejected"]
          /\ mq' = Tail(mq)
  /\ event' = <<>>
  /\ UNCHANGED <<thisSystem, system, seed, listeners, outstanding, packet>>

\* variant: a failed seed exchange is retried once from connect()
signonCatch_retry(c) ==
  /\ mq # <<>> /\ Head(mq) = c
  /\ calls[c].pc # "done" /\ calls[c].promise = "rejected"
  /\ IF calls[c].pc = "exchangeSeeds" /\ calls[c].nConnect < 2
     THEN /\ calls' = [calls EXCEPT ![c].pc = "connect", ![c].promise = "pending",
                                    ![c].err = <<>>, ![c].nConnect = @ + 1]
          /\ mq' = Tail(mq)
     ELSE /\ calls' = [calls EXCEPT ![c].pc = "done", ![c].outcome = "rejected"]
          /\ mq' = Tail(mq)
  /\ event' = <<>>
  /\ UNCHANGED <<thisSystem, system, seed, listeners, outstanding, packet>>

\* variant: the catch block throws a new Error built from err instead of err itself
signonCatch_wrapped(c) ==
  /\ mq # <<>> /\ Head(mq) = c
  /\ calls[c].pc # "done" /\ calls[c].promise = "rejected"
  /\ calls' = [calls EXCEPT ![c].pc = "done", ![c].outcome = "rejected",
                            ![c].err = <<[@[1] EXCEPT !.msg = "Failed to signon"]>>]
  /\ mq' = Tail(mq)
  /\ event' = <<>>
  /\ UNCHANGED <<thisSystem, system, seed, listeners, outstanding, packet>>

\* variant: the catch block logs err and does not rethrow, so signon() returns res
signonCatch_noRethrow(c) ==
  /\ mq # <<>> /\ Head(mq) = c
  /\ calls[c].pc # "done" /\ calls[c].promise = "rejected"
  /\ calls' = [calls EXCEPT ![c].pc = "done", ![c].outcome = "resolved"]
  /\ mq' = Tail(mq)
  /\ event' = <<>>
  /\ UNCHANGED <<thisSystem, system, seed, listeners, outstanding, packet>>

\* an awaited promise was rejected: the catch block rethrows err
signonCatch(c) ==
  /\ mq # <<>> /\ Head(mq) = c
  /\ calls[c].pc # "done" /\ calls[c].promise = "rejected"
  /\ calls' = [calls EXCEPT ![c].pc = "done", ![c].outcome = "rejected"]
  /\ mq' = Tail(mq)
  /\ event' = <<>>
  /\ UNCHANGED <<thisSystem, system, seed, listeners, outstanding, packet>>

(***************************************************************************)
(* An inbound 'data' event on the socket of instance i: every registered   *)
(* one-shot listener is removed and called with the buffer, in order of    *)
(* registration.                                                           *)
(***************************************************************************)
Settlement(s, kind, data) ==
  IF kind = "seed" THEN handleSeedExchangeResponse(s, data) ELSE handleInfoResponse(s, data)

ListenerOf(L, c) == L[CHOOSE k \in DOMAIN L : L[k].call = c]

Listening(L, c) == \E k \in DOMAIN L : L[k].call = c

\* history: the buffer that fulfilled the seed exchange of a call
Heard(after, before, kind, data) ==
  IF kind = "seed" /\ Pending(before, kind) /\ after.promise = "fulfilled"
  THEN [after EXCEPT !.seedReply = <<data>>]
  ELSE after

RECURSIVE Reactions(_)
Reactions(L) ==
  IF L = <<>> THEN <<>>
  ELSE (IF Pending(calls[Head(L).call], Head(L).kind) THEN <<Head(L).call>> ELSE <<>>)
       \o Reactions(Tail(L))

\* variant: the handlers are registered with on() and stay after a data event
socketData_on(i, data) ==
  /\ mq = <<>>
  /\ outstanding[i] > 0
  /\ LET L == listeners[i]
         s == thisSystem[i]
     IN /\ system' = IF \E k \in DOMAIN L : L[k].kind = "seed"
                     THEN [system EXCEPT ![s] = seedExchangeSystem(@, data)]
                     ELSE system
        /\ calls' = [c \in DOMAIN calls |->
                       IF Listening(L, c)
                       THEN Heard(PromiseSettle(calls[c], ListenerOf(L, c).kind,
                                                Settlement(s, ListenerOf(L, c).kind, data)),
                                  calls[c], ListenerOf(L, c).kind, data)
                       ELSE calls[c]]
        /\ mq' = mq \o Reactions(L)
  /\ outstanding' = [outstanding EXCEPT ![i] = @ - 1]
  /\ event' = <<[inst |-> i, data |-> data]>>
  /\ UNCHANGED <<thisSystem, seed, listeners, packet>>

socketData(i, data) ==
  /\ mq = <<>>
  /\ outstanding[i] > 0
  /\ LET L == listeners[i]
         s == thisSystem[i]
     IN /\ system' = IF \E k \in DOMAIN L : L[k].kind = "seed"
                     THEN [system EXCEPT ![s] = seedExchangeSystem(@, data)]
                     ELSE system
        /\ calls' = [c \in DOMAIN calls |->
                       IF Listening(L, c)
                       THEN Heard(PromiseSettle(calls[c], ListenerOf(L, c).kind,
                                                Settlement(s, ListenerOf(L, c).kind, data)),
                                  calls[c], ListenerOf(L, c).kind, data)
                       ELSE calls[c]]
        /\ mq' = mq \o Reactions(L)
  /\ listeners' = [listeners EXCEPT ![i] = <<>>]
  /\ outstanding' = [outstanding EXCEPT ![i] = @ - 1]
  /\ event' = <<[inst |-> i, data |-> data]>>
  /\ UNCHANGED <<thisSystem, seed, packet>>

Step(D, maxCalls) ==
  \/ \E i \in Inst : signon(i, maxCalls)
  \/ \E c \in DOMAIN calls : connectResolved(c)
  \/ \E c \in DOMAIN calls, e \in ConnectErrors : connectRejected(c, e)
  \/ \E c \in DOMAIN calls, sent \in {"ok"} \cup SendErrors : exchangeSeeds(c, sent)
  \/ \E c \in DOMAIN calls, sent \in {"ok"} \cup SendErrors : info(c, sent)
  \/ \E c \in DOMAIN calls : signonReturn(c)
  \/ \E c \in DOMAIN calls : signonCatch(c)
  \/ \E i \in Inst, data \in D : socketData(i, data)

\* handshakes whose host answers with the status codes RCs
Next == Step(Data, MaxCalls)
Spec == Init /\ [][Next]_vars

\* handshakes whose host answers with every status code of AllRCs
MaxCallsAllRCs == 1
NextAllRCs == Step(AllData, MaxCallsAllRCs)
SpecAllRCs == Init /\ [][NextAllRCs]_vars

(***************************************************************************)
(* Handshakes under fairness: a continuation in the microtask queue runs,  *)
(* connect() completes, and the host delivers a data event for every       *)
(* request written to a socket.  The caller is free never to call          *)
(* signon().                                                               *)
(***************************************************************************)
MaxCallsFair == 2
FairData ==
  { [length |-> 23, rc |-> 0, body |-> Body2] } \cup FullData({0, 1})

NextFair == Step(FairData, MaxCallsFair)

Continuation ==
  \E c \in DOMAIN calls :
    \/ \E sent \in {"ok"} \cup SendErrors : exchangeSeeds(c, sent)
    \/ \E sent \in {"ok"} \cup SendErrors : info(c, sent)
    \/ signonReturn(c)
    \/ signonCatch(c)

ConnectCompletes ==
  \E c \in DOMAIN calls : connectResolved(c) \/ \E e \in ConnectErrors : connectRejected(c, e)

HostReplies(i) == \E data \in FairData : socketData(i, data)

Fairness ==
  /\ WF_vars(Continuation)
  /\ WF_vars(ConnectCompletes)
  /\ \A i \in Inst : WF_vars(HostReplies(i))

FairSpec == Init /\ [][NextFair]_vars /\ Fairness

(***************************************************************************)
(* Data-queue exchange-attributes packets.  Packet is the byte buffer of   *)
(* a frame with big-endian accessors; a packet object is constructed from  *)
(* a size (a zeroed buffer whose first four bytes hold the size) or from   *)
(* an inbound buffer, which it wraps as it is.                             *)
(***************************************************************************)
MaxFrame == 29                \* longest inbound buffer, largest length field in one

HeaderLength == 20            \* bytes of the fixed header
RequestLength == 26
ResponseLength == 22
ClientVersionOffset == 20
ClientVersion == 1
DataQueueExchangeAttributesResponse_ID == 32768

LengthOffset == 0
ServiceIdOffset == 6
TemplateLengthOffset == 16
RequestResponseIdOffset == 18
DataQueueService_SERVICE_id == 57351

Zeroed(size) == [k \in 1..size |-> 0]

set16Bit(buffer, val, offset) ==
  [k \in DOMAIN buffer |->
     IF k = offset + 1 THEN (val \div 256) % 256
     ELSE IF k = offset + 2 THEN val % 256
     ELSE buffer[k]]

get16Bit(buffer, offset) == buffer[offset + 1] * 256 + buffer[offset + 2]

set32Bit(buffer, val, offset) ==
  [k \in DOMAIN buffer |->
     IF k = offset + 1 THEN (val \div 16777216) % 256
     ELSE IF k = offset + 2 THEN (val \div 65536) % 256
     ELSE IF k = offset + 3 THEN (val \div 256) % 256
     ELSE IF k = offset + 4 THEN val % 256
     ELSE buffer[k]]

get32Bit(buffer, offset) ==
  buffer[offset + 1] * 16777216 + buffer[offset + 2] * 65536
    + buffer[offset + 3] * 256 + buffer[offset + 4]

\* the arguments a packet constructor is called with
NoArg == [type |-> "undefined"]
Size(n) == [type |-> "number", size |-> n]
Buffer(bytes) == [type |-> "buffer", data |-> bytes]

\* an inbound buffer of size bytes whose header announces a frame of len bytes
Inbound(len, size) == set32Bit(Zeroed(size), len, LengthOffset)

InboundData == {Inbound(len, size) : len \in HeaderLength..MaxFrame, size \in HeaderLength..MaxFrame}

Sizes == {0, ResponseLength, HeaderLength + 4}

DataOrSize == {NoArg} \cup {Size(n) : n \in Sizes} \cup {Buffer(b) : b \in InboundData}

\* JavaScript !dataOrSize
Not(dataOrSize) ==
  \/ dataOrSize.type = "undefined"
  \/ dataOrSize.type = "number" /\ dataOrSize.size = 0

Packet(dataOrSize) ==
  IF dataOrSize.type = "number"
  THEN set32Bit(Zeroed(dataOrSize.size), dataOrSize.size, LengthOffset)
  ELSE dataOrSize.data

DataQueueExchangeAttributesRequest ==
  LET b0 == Packet(Size(RequestLength))
      b1 == set32Bit(b0, RequestLength, LengthOffset)
      b2 == set16Bit(b1, DataQueueService_SERVICE_id, ServiceIdOffset)
      b3 == set16Bit(b2, get32Bit(b2, LengthOffset) - HeaderLength, TemplateLengthOffset)
  IN set32Bit(b3, ClientVersion, ClientVersionOffset)

DataQueueExchangeAttributesResponse(dataOrSize) ==
  LET b0 == IF Not(dataOrSize) THEN Packet(Size(ResponseLength)) ELSE Packet(dataOrSize)
  IN IF Not(dataOrSize)
     THEN set16Bit(set16Bit(set32Bit(b0, ResponseLength, LengthOffset),
                            DataQueueService_SERVICE_id, ServiceIdOffset),
                   DataQueueExchangeAttributesResponse_ID, RequestResponseIdOffset)
     ELSE b0

newDataQueueExchangeAttributesRequest ==
  /\ packet' = <<[class |-> "DataQueueExchangeAttributesRequest", arg |-> NoArg,
                  buffer |-> DataQueueExchangeAttributesRequest]>>
  /\ UNCHANGED <<thisSystem, system, seed, listeners, outstanding, calls, mq, event>>

newDataQueueExchangeAttributesResponse(dataOrSize) ==
  /\ packet' = <<[class |-> "DataQueueExchangeAttributesResponse", arg |-> dataOrSize,
                  buffer |-> DataQueueExchangeAttributesResponse(dataOrSize)]>>
  /\ UNCHANGED <<thisSystem, system, seed, listeners, outstanding, calls, mq, event>>

NextFrames ==
  \/ newDataQueueExchangeAttributesRequest
  \/ \E dataOrSize \in DataOrSize : newDataQueueExchangeAttributesResponse(dataOrSize)

SpecFrames == Init /\ [][NextFrames]_vars

(***************************************************************************)
(* Properties                                                              *)
(***************************************************************************)
Calls == DOMAIN calls
SystemOf(c) == thisSystem[calls[c].inst]

\* call c has sent the request of a phase and waits for its reply
AwaitingReply(c, kind) == Pending(calls[c], kind)

\* the step delivers a data event to the socket of the instance of call c
Delivered(c) == event' # <<>> /\ event'[1].inst = calls[c].inst
Reply == event'[1].data

FailedPhase1(c) ==
  /\ calls[c].err # <<>>
  /\ calls[c].err[1].phase = "seed"
  /\ calls[c].err[1].kind \in {"framing", "protocol"}

\* C1: the Password Encryptor has been invoked by a call only if
\* passwordAttributesSet of that call's system is true.
C1_EncryptOnlyAfterAttributesSet ==
  \A c \in Calls :
    calls[c].nEncrypt > 0 => system[SystemOf(c)].passwordAttributesSet

C1_Witness ==
  \E c \in Calls :
    calls[c].nEncrypt = 1 /\ system[SystemOf(c)].passwordAttributesSet

\* C2: a call whose phase 1 failed on its reply (framing error or non-zero
\* status) has invoked the Password Encryptor zero times and sent zero info
\* requests, up to and including its rejection.
C2_FailedPhase1NeverReachesPhase2 ==
  \A c \in Calls :
    FailedPhase1(c) => calls[c].nEncrypt = 0 /\ calls[c].nInfoReq = 0

C2_Witness ==
  \E c, d \in Calls :
    /\ FailedPhase1(c) /\ calls[c].err[1].kind = "framing"
    /\ calls[c].outcome = "rejected"
    /\ FailedPhase1(d) /\ calls[d].err[1].kind = "protocol"
    /\ calls[d].outcome = "rejected"

\* C3: when a call waits for the reply of either phase and a buffer shorter
\* than 24 bytes arrives, whatever its content, the phase is rejected with a
\* framing error naming the host: it is neither fulfilled nor rejected with
\* a protocol error, and the negotiation state is not written.
C3_ShortReplyIsFramingError ==
  [][\A c \in Calls : \A kind \in {"seed", "info"} :
       (AwaitingReply(c, kind) /\ Delivered(c) /\ Reply.length < 24)
         => /\ calls'[c].promise = "rejected"
            /\ calls'[c].err = <<FramingError(kind, hostName(SystemOf(c)))>>
            /\ calls'[c].res = <<>>
            /\ system' = system]_vars

C3_Witness ==
  \E c, d \in Calls :
    /\ event # <<>> /\ event[1].data.length = 23 /\ event[1].data.rc = 0
    /\ calls[c].inst = event[1].inst /\ calls[d].inst = event[1].inst
    /\ calls[c].pc = "exchangeSeeds" /\ calls[c].promise = "rejected"
    /\ calls[c].err[1].kind = "framing"
    /\ calls[d].pc = "info" /\ calls[d].promise = "rejected"
    /\ calls[d].err[1].kind = "framing"

\* C4: a settled signon() call is either resolved with Session Attributes
\* and no error, or rejected with one error of kind framing, protocol or
\* transport and no result; once settled, no step changes its outcome.
Settled(call) == call.outcome # "pending"
WellSettled(call) ==
  /\ call.outcome = "resolved" => Len(call.res) = 1 /\ call.err = <<>>
  /\ call.outcome = "rejected"
       => /\ call.res = <<>>
          /\ Len(call.err) = 1
          /\ call.err[1].kind \in {"framing", "protocol", "transport"}

C4_SettlesOnceWithOneOutcome ==
  [][\A c \in Calls :
       /\ WellSettled(calls'[c])
       /\ Settled(calls[c])
            => /\ calls'[c].outcome = calls[c].outcome
               /\ calls'[c].res = calls[c].res
               /\ calls'[c].err = calls[c].err]_vars

\* a full status-0 reply is delivered to an instance after one of its calls was rejected
C4_Witness ==
  \E c \in Calls :
    /\ calls[c].outcome = "rejected" /\ calls[c].err[1].kind = "transport"
    /\ calls[c].err[1].phase = "seed"
    /\ event # <<>> /\ event[1].inst = calls[c].inst
    /\ event[1].data.length = 24 /\ event[1].data.rc = 0

\* C5: on the socket of every Signon instance at most one request is
\* outstanding (sent, reply not yet delivered) at any time.
C5_AtMostOneOutstanding ==
  \A i \in Inst : outstanding[i] <= 1

\* C6: a handshake's phase 2 uses the password level, server level and
\* server seed of the reply that fulfilled its own phase 1, and a client
\* seed drawn by its own Signon instance (its own request's seed when it is
\* the only call of its instance), also when another instance constructed
\* for the same system object runs a handshake at the same time.
SameInst(c) == {d \in Calls : calls[d].inst = calls[c].inst}

C6_Phase2UsesOwnPhase1 ==
  \A c \in Calls :
    /\ calls[c].encrypt # <<>>
         => /\ calls[c].seedReply # <<>>
            /\ calls[c].encrypt[1].level = calls[c].seedReply[1].body.passwordLevel
            /\ calls[c].encrypt[1].serverSeed = calls[c].seedReply[1].body.serverSeed
            /\ calls[c].encrypt[1].clientSeed \in {calls[d].reqSeed : d \in SameInst(c)}
            /\ SameInst(c) = {c} => calls[c].encrypt[1].clientSeed = calls[c].reqSeed
    /\ calls[c].infoReq # <<>>
         => calls[c].infoReq[1].serverLevel = calls[c].seedReply[1].body.serverLevel

\* two instances of one system object, both waiting in phase 2, negotiated different levels
C6_Witness ==
  \E c, d \in Calls :
    /\ calls[c].inst # calls[d].inst /\ SystemOf(c) = SystemOf(d)
    /\ AwaitingReply(c, "info") /\ AwaitingReply(d, "info")
    /\ calls[c].encrypt[1].level # calls[d].encrypt[1].level
    /\ calls[c].infoReq[1].serverLevel # calls[d].infoReq[1].serverLevel

\* C7 (as claimed): a seed-exchange reply of at least 24 bytes with status 0,
\* delivered to a call waiting in phase 1, leaves serverLevel, serverVersion,
\* passwordLevel and serverSeed of the system set to the reply's values and
\* passwordAttributesSet true, fulfils phase 1 with the reply's server seed
\* and produces no Session Attributes.
SeedReplyOk(c) ==
  AwaitingReply(c, "seed") /\ Delivered(c) /\ Reply.length >= 24 /\ Reply.rc = 0

SeedReplyRecorded(c) ==
  /\ system'[SystemOf(c)].serverLevel = Reply.body.serverLevel
  /\ system'[SystemOf(c)].serverVersion = Reply.body.serverVersion
  /\ system'[SystemOf(c)].passwordLevel = Reply.body.passwordLevel
  /\ system'[SystemOf(c)].passwordAttributesSet
  /\ calls'[c].promise = "fulfilled"
  /\ calls'[c].serverSeed = Reply.body.serverSeed
  /\ calls'[c].res = <<>>

SessionAttributeNames ==
  {"serverCCSID", "currentSignonDate", "lastSignonDate",
   "passwordExpirationDate", "expirationWarning", "userId"}

C8_InfoReplyOkResolves ==
  [][\A c \in Calls :
       /\ (AwaitingReply(c, "info") /\ Delivered(c) /\ Reply.length >= 24 /\ Reply.rc = 0)
            => /\ calls'[c].promise = "fulfilled"
               /\ Len(calls'[c].res) = 1
               /\ DOMAIN calls'[c].res[1] = SessionAttributeNames
               /\ \A f \in SessionAttributeNames : calls'[c].res[1][f] = Reply.body[f]
       /\ (calls[c].pc = "info" /\ calls[c].promise = "fulfilled")
            => \/ calls'[c] = calls[c]
               \/ /\ calls'[c].outcome = "resolved"
                  /\ calls'[c].res = calls[c].res]_vars

C8_Witness ==
  \E c \in Calls :
    /\ calls[c].outcome = "resolved"
    /\ calls[c].res[1].userId = "ALICE"
    /\ calls[c].infoReq[1].userId = "bob"
    /\ calls[c].res[1].serverCCSID = 37

\* C9: an info reply of at least 24 bytes with a non-zero status, delivered
\* to a call waiting in phase 2, rejects phase 2 with the Error Taxonomy
\* message of that status (its own message for each of the five known codes,
\* "Unknown error" for any other), and signon() then rejects with that error.
ErrorTaxonomy ==
  65544 :> "Password length not valid"
    @@ 131073 :> "Unknown user ID"
    @@ 131074 :> "User ID is disabled"
    @@ 196619 :> "Incorrect password"
    @@ 196620 :> "Incorrect password, user ID will be disabled on the next incorrect password"

TaxonomyMessage(rc) ==
  IF rc \in DOMAIN ErrorTaxonomy THEN ErrorTaxonomy[rc] ELSE "Unknown error"

C9_InfoReplyErrorRejects ==
  [][\A c \in Calls :
       /\ (AwaitingReply(c, "info") /\ Delivered(c) /\ Reply.length >= 24 /\ Reply.rc # 0)
            => /\ calls'[c].promise = "rejected"
               /\ calls'[c].res = <<>>
               /\ calls'[c].err =
                    <<[kind |-> "protocol", phase |-> "info",
                       host |-> hostName(SystemOf(c)), code |-> 0,
                       msg |-> TaxonomyMessage(Reply.rc)]>>
       /\ (calls[c].pc = "info" /\ calls[c].promise = "rejected")
            => \/ calls'[c] = calls[c]
               \/ /\ calls'[c].outcome = "rejected"
                  /\ calls'[c].err = calls[c].err]_vars

C9_Witness ==
  \E c \in Calls :
    /\ calls[c].outcome = "rejected"
    /\ calls[c].err[1].phase = "info"
    /\ calls[c].err[1].msg = ErrorTaxonomy[196620]

\* C10: a call makes at most one connect attempt and sends at most one
\* seed-exchange request and at most one info request; once one of its
\* awaited promises is rejected, it makes no further attempt or request.
Failed(call) == call.promise = "rejected" \/ call.outcome = "rejected"

C10_NoInternalRetry ==
  [][\A c \in Calls :
       /\ calls'[c].nConnect <= 1
       /\ calls'[c].nSeedReq <= 1
       /\ calls'[c].nInfoReq <= 1
       /\ Failed(calls[c])
            => /\ calls'[c].nConnect = calls[c].nConnect
               /\ calls'[c].nSeedReq = calls[c].nSeedReq
               /\ calls'[c].nInfoReq = calls[c].nInfoReq]_vars

C10_Witness ==
  \E c, d \in Calls :
    /\ calls[c].outcome = "rejected" /\ calls[c].err[1].kind = "framing"
    /\ calls[c].nConnect = 1 /\ calls[c].nSeedReq = 1 /\ calls[c].nInfoReq = 1
    /\ calls[d].outcome = "rejected" /\ calls[d].err[1].kind = "transport"
    /\ calls[d].err[1].phase = "seed"
    /\ calls[d].nConnect = 1 /\ calls[d].nSeedReq = 0 /\ calls[d].nInfoReq = 0

\* C11: when connect() or sendPacket() raises an error, the call starts no
\* later phase, produces no Session Attributes, and signon() rejects with
\* that very error.
LaterPhaseStarted(call) ==
  \/ call.thrown[1].phase = "connect" /\ (call.reqSeed # Undefined \/ call.nSeedReq > 0)
  \/ call.thrown[1].phase \in {"connect", "seed"} /\ call.nEncrypt > 0
  \/ call.nInfoReq > 0

C11_TransportErrorPropagatesUnmodified ==
  \A c \in Calls :
    calls[c].thrown # <<>>
      => /\ ~LaterPhaseStarted(calls[c])
         /\ calls[c].res = <<>>
         /\ calls[c].outcome # "resolved"
         /\ calls[c].promise = "rejected"
         /\ calls[c].pc = "done" => /\ calls[c].outcome = "rejected"
                                    /\ calls[c].err = calls[c].thrown

C11_Witness ==
  \E c, d \in Calls :
    /\ calls[c].outcome = "rejected" /\ calls[c].thrown # <<>>
    /\ calls[c].thrown[1].phase = "connect" /\ calls[c].err = calls[c].thrown
    /\ calls[d].outcome = "rejected" /\ calls[d].thrown # <<>>
    /\ calls[d].thrown[1].phase = "info" /\ calls[d].err = calls[d].thrown

\* C12: a call that has sent a request and waits for the reply is changed by
\* no step other than an inbound data event on its socket: no timer and no
\* other action of the orchestrator resolves or rejects it.
C12_OnlyDataSettlesWaitingCall ==
  [][\A c \in Calls : \A kind \in {"seed", "info"} :
       (AwaitingReply(c, kind) /\ calls'[c] # calls[c]) => Delivered(c)]_vars

\* a call waits for its info reply while nothing else is left to run
C12_Witness ==
  \E c \in Calls :
    /\ AwaitingReply(c, "info")
    /\ mq = <<>>
    /\ Len(calls) = MaxCalls
    /\ \A d \in Calls \ {c} : calls[d].pc = "done"

\* C13: in one call, the seed-exchange request is sent only after connect()
\* completed, the encryptor is invoked only after the seed exchange was
\* fulfilled by its reply, the info request is sent only after the
\* encryption, and the call never has its seed-exchange reader registered
\* while its phase 2 has started.
Registered(c, kind) ==
  \E k \in DOMAIN listeners'[calls[c].inst] :
    listeners'[calls[c].inst][k] = [call |-> c, kind |-> kind]

C13_PhasesStrictlyOrdered ==
  [][\A c \in Calls :
       /\ calls'[c].nSeedReq > calls[c].nSeedReq
            => /\ calls[c].pc = "connect" /\ calls[c].promise = "fulfilled"
               /\ calls[c].nEncrypt = 0 /\ calls[c].nInfoReq = 0
       /\ calls'[c].nEncrypt > calls[c].nEncrypt
            => /\ calls[c].pc = "exchangeSeeds" /\ calls[c].promise = "fulfilled"
               /\ calls[c].nSeedReq = 1 /\ calls[c].seedReply # <<>>
               /\ calls[c].nInfoReq = 0
       /\ calls'[c].nInfoReq > calls[c].nInfoReq => calls'[c].nEncrypt = 1
       /\ calls'[c].res # <<>> => calls'[c].nInfoReq = 1
       /\ ~(Registered(c, "seed") /\ (calls'[c].nEncrypt > 0 \/ Registered(c, "info")))]_vars

C13_Witness ==
  \E c \in Calls :
    /\ calls[c].outcome = "resolved"
    /\ calls[c].nConnect = 1 /\ calls[c].nSeedReq = 1
    /\ calls[c].nEncrypt = 1 /\ calls[c].nInfoReq = 1
    /\ calls[c].seedReply # <<>>

\* C14: a call has at most one reader registered at any time; while its
\* request of a phase is in flight, the reader of that phase is registered;
\* the reader is already registered when sendPacket fails; and when the call
\* is the only one made on its connection, the connection never holds more
\* than one reader.
ReadersOf(c) ==
  {k \in DOMAIN listeners[calls[c].inst] : listeners[calls[c].inst][k].call = c}

SendFailed(c) ==
  /\ calls[c].thrown # <<>>
  /\ calls[c].thrown[1].phase \in {"seed", "info"}
  /\ calls[c].pc # "done"

C14_OneReaderBeforeSend ==
  \A c \in Calls :
    /\ Cardinality(ReadersOf(c)) <= 1
    /\ \A kind \in {"seed", "info"} :
         AwaitingReply(c, kind)
           => \E k \in ReadersOf(c) : listeners[calls[c].inst][k].kind = kind
    /\ SendFailed(c)
         => \E k \in ReadersOf(c) :
              listeners[calls[c].inst][k].kind = calls[c].thrown[1].phase
    /\ SameInst(c) = {c} => Len(listeners[calls[c].inst]) <= 1

\* a lone call on its connection waits in phase 2 with its one reader
C14_Witness ==
  \E c \in Calls :
    /\ SameInst(c) = {c}
    /\ AwaitingReply(c, "info")
    /\ listeners[calls[c].inst] = <<[call |-> c, kind |-> "info"]>>

\* C15: a call that reached phase 2 invoked the Password Encryptor exactly
\* once, with the password level and server seed of its own seed-exchange
\* reply and the client seed of its own seed-exchange request; its info
\* request carries the user id, the blob the encryptor returned and the
\* server level of that same reply.
C15_EncryptorUsesOwnHandshake ==
  \A c \in Calls :
    /\ calls[c].encrypt # <<>>
         => /\ calls[c].nEncrypt = 1
            /\ calls[c].seedReply # <<>>
            /\ calls[c].encrypt[1].level = calls[c].seedReply[1].body.passwordLevel
            /\ calls[c].encrypt[1].serverSeed = calls[c].seedReply[1].body.serverSeed
            /\ calls[c].encrypt[1].clientSeed = calls[c].reqSeed
    /\ calls[c].infoReq # <<>>
         => /\ calls[c].encrypt # <<>>
            /\ calls[c].infoReq[1].userId = userId(SystemOf(c))
            /\ calls[c].infoReq[1].encryptedPassword = calls[c].encrypt[1]
            /\ calls[c].infoReq[1].serverLevel = calls[c].seedReply[1].body.serverLevel

\* C16: the length field of every packet object equals the byte length of
\* its buffer: a DataQueueExchangeAttributesRequest has length 26 on 26
\* bytes, templateLength 6 and clientVersion at offset 20; a
\* DataQueueExchangeAttributesResponse built without data has length 22 on
\* 22 bytes; a response built from inbound data has a length field equal to
\* the byte length of that data.
LengthOf(p) == get32Bit(p.buffer, LengthOffset)

C16_LengthFieldIsBufferLength ==
  \A k \in DOMAIN packet :
    LET p == packet[k]
    IN /\ LengthOf(p) = Len(p.buffer)
       /\ p.class = "DataQueueExchangeAttributesRequest"
            => /\ LengthOf(p) = 26
               /\ get16Bit(p.buffer, TemplateLengthOffset) = 6
               /\ get32Bit(p.buffer, 20) = 1
       /\ p.class = "DataQueueExchangeAttributesResponse" /\ Not(p.arg)
            => LengthOf(p) = 22
       /\ p.class = "DataQueueExchangeAttributesResponse" /\ p.arg.type = "buffer"
            => LengthOf(p) = Len(p.arg.data)

\* C17: when the seed-exchange reply delivered to a call waiting in phase 1
\* is shorter than 24 bytes or has a non-zero status, serverLevel,
\* serverVersion, passwordLevel and passwordAttributesSet of the call's
\* system keep the values they had before the reply was handled.
SeedReplyFails(c) ==
  AwaitingReply(c, "seed") /\ Delivered(c) /\ (Reply.length < 24 \/ Reply.rc # 0)

NegotiationState(sys) ==
  <<sys.serverLevel, sys.serverVersion, sys.passwordLevel, sys.passwordAttributesSet>>

C17_FailedPhase1KeepsNegotiationState ==
  [][\A c \in Calls :
       SeedReplyFails(c)
         => NegotiationState(system'[SystemOf(c)]) = NegotiationState(system[SystemOf(c)])]_vars

\* a failing seed-exchange reply has just been handled for a call whose
\* system holds the attributes an earlier handshake negotiated
C17_Witness ==
  \E c \in Calls :
    /\ FailedPhase1(c)
    /\ calls[c].pc = "exchangeSeeds" /\ calls[c].promise = "rejected"
    /\ event # <<>> /\ event[1].inst = calls[c].inst
    /\ (event[1].data.length < 24 \/ event[1].data.rc # 0)
    /\ system[SystemOf(c)].passwordAttributesSet
    /\ system[SystemOf(c)].serverLevel # Undefined

\* C18: under fairness every signon() call that was made eventually settles,
\* resolved or rejected, and ends; no call stays pending for ever.
C18_EveryCallSettles ==
  \A c \in 1..MaxCallsFair :
    (c \in Calls) ~> (c \in Calls /\ Settled(calls[c]) /\ calls[c].pc = "done")

\* every call of the run has settled, one with its Session Attributes and
\* one with the error of a rejected reply
C18_Witness ==
  /\ Len(calls) = MaxCallsFair
  /\ \A c \in Calls : Settled(calls[c]) /\ calls[c].pc = "done"
  /\ \E c \in Calls : calls[c].outcome = "resolved" /\ calls[c].res # <<>>
  /\ \E c \in Calls : calls[c].outcome = "rejected" /\ calls[c].err[1].kind = "protocol"

\* C19: once a signon() call has settled, no reader registered by that call
\* remains on the socket of its instance.
C19_SettledCallHasNoReader ==
  \A c \in Calls :
    Settled(calls[c]) => ~Listening(listeners[calls[c].inst], c)

====
